---- MODULE Spec2Model ----
(***************************************************************************)
(* Model of datafun_03_analytics: four Extract-Transform-Verify-Load       *)
(* pipelines (CSV, XLSX, JSON, text) run one after another by main().      *)
(*                                                                         *)
(* Representation.                                                         *)
(*   - A Python str whose characters the code inspects (strip, split,      *)
(*     lower, count, float) is a sequence of one-character strings.        *)
(*   - A Python float is an exact rational [n, d] in lowest terms, d > 0.  *)
(*     Only decimal literals (sign, digits, one point) are in the model's  *)
(*     alphabet; exponents, underscores, "inf" and "nan" are not.          *)
(*   - A call either returns or raises: [ok |-> TRUE, val |-> v] or        *)
(*     [ok |-> FALSE, err |-> "<exception class>"].                        *)
(*   - A file on disk is Absent or a record tagged with its format, holding*)
(*     what the format's library parser yields (csv.DictReader, openpyxl,  *)
(*     json.load, readlines).  A report file is a sequence of lines, each  *)
(*     written by one f.write call and ending in a newline.                *)
(***************************************************************************)
EXTENDS Integers, Sequences, FiniteSets, TLC

(***************************************************************************)
(* Bounds of the model.                                                    *)
(***************************************************************************)
MaxRows == 3
MaxText == 3
MaxCount == 2
MaxCalls == 2
\* the largest finite magnitude of the float format
FloatMax == 100

(***************************************************************************)
(* Results of calls.                                                       *)
(***************************************************************************)
Ok(v) == [ok |-> TRUE, val |-> v]
Raise(e) == [ok |-> FALSE, err |-> e]

(***************************************************************************)
(* Python values whose type the code tests at run time.                    *)
(***************************************************************************)
NoneVal == [k |-> "none"]
PyStr(s) == [k |-> "str", s |-> s]
PyNum(i) == [k |-> "num", n |-> i]
PyList(xs) == [k |-> "list", xs |-> xs]
PyDict(f) == [k |-> "dict", f |-> f]

\* dict.get(key, default) and d[key] = v on dicts held as functions
DictGet(d, key, default) == IF key \in DOMAIN d THEN d[key] ELSE default
DictSet(d, key, v) == [x \in DOMAIN d \cup {key} |-> IF x = key THEN v ELSE d[x]]

(***************************************************************************)
(* Sequences.                                                              *)
(***************************************************************************)
Range(s) == {s[i] : i \in 1..Len(s)}
SeqsUpTo(S, n) == UNION {[1..m -> S] : m \in 0..n}

RECURSIVE SumSeq(_)
SumSeq(s) == IF s = <<>> THEN 0 ELSE Head(s) + SumSeq(Tail(s))

RECURSIVE SelectIdx(_, _, _)
\* the subsequence of s at the indices i..Len(s) that are in the set keep
SelectIdx(s, keep, i) ==
    IF i > Len(s) THEN <<>>
    ELSE (IF i \in keep THEN <<s[i]>> ELSE <<>>) \o SelectIdx(s, keep, i + 1)

(***************************************************************************)
(* Characters and strings (str methods the code calls).                    *)
(***************************************************************************)
Ascii == <<"\t", "\n", " ", "+", "-", ".",
           "0", "1", "2", "3", "4", "5", "6", "7", "8", "9",
           "A", "B", "C", "D", "E", "F", "G", "H", "I", "J", "K", "L", "M",
           "N", "O", "P", "Q", "R", "S", "T", "U", "V", "W", "X", "Y", "Z",
           "a", "b", "c", "d", "e", "f", "g", "h", "i", "j", "k", "l", "m",
           "n", "o", "p", "q", "r", "s", "t", "u", "v", "w", "x", "y", "z">>
Ord(c) == CHOOSE i \in 1..Len(Ascii) : Ascii[i] = c
Whitespace == {"\t", "\n", " "}
IsDigit(c) == Ord(c) >= Ord("0") /\ Ord(c) <= Ord("9")
DigitVal(c) == Ord(c) - Ord("0")
IsUpper(c) == Ord(c) >= Ord("A") /\ Ord(c) <= Ord("Z")

\* str.lower()
LowerChar(c) == IF IsUpper(c) THEN Ascii[Ord(c) + 26] ELSE c
Lower(s) == [i \in 1..Len(s) |-> LowerChar(s[i])]

RECURSIVE LStrip(_)
LStrip(s) == IF s # <<>> /\ Head(s) \in Whitespace THEN LStrip(Tail(s)) ELSE s
RECURSIVE RStrip(_)
RStrip(s) ==
    IF s # <<>> /\ s[Len(s)] \in Whitespace
    THEN RStrip(SubSeq(s, 1, Len(s) - 1)) ELSE s
\* str.strip()
Strip(s) == RStrip(LStrip(s))

\* len(str.split()): the whitespace-delimited tokens are the maximal runs of
\* non-whitespace characters; each run is counted at its first character.
SplitLen(s) ==
    Cardinality({i \in 1..Len(s) :
        /\ s[i] \notin Whitespace
        /\ (i = 1 \/ s[i - 1] \in Whitespace)})

RECURSIVE CountFrom(_, _, _)
\* str.count(target) for a non-empty target: scan left to right, and after a
\* match resume behind it.
CountFrom(text, target, i) ==
    IF i + Len(target) - 1 > Len(text) THEN 0
    ELSE IF SubSeq(text, i, i + Len(target) - 1) = target
         THEN 1 + CountFrom(text, target, i + Len(target))
         ELSE CountFrom(text, target, i + 1)
StrCount(text, target) == CountFrom(text, target, 1)

RECURSIVE StrLt(_, _)
\* str < str: lexicographic by code point
StrLt(a, b) ==
    IF b = <<>> THEN FALSE
    ELSE IF a = <<>> THEN TRUE
    ELSE IF Head(a) # Head(b) THEN Ord(Head(a)) < Ord(Head(b))
    ELSE StrLt(Tail(a), Tail(b))

RECURSIVE Sorted(_)
\* sorted(keys): ascending
Sorted(S) ==
    IF S = {} THEN <<>>
    ELSE LET m == CHOOSE x \in S : \A y \in S \ {x} : StrLt(x, y)
         IN <<m>> \o Sorted(S \ {m})

RECURSIVE Str(_)
\* the text of a character sequence, as it is interpolated into an f-string
Str(s) == IF s = <<>> THEN "" ELSE Head(s) \o Str(Tail(s))

(***************************************************************************)
(* Floats.  A finite float is an exact rational n/d in lowest terms with   *)
(* d > 0, of magnitude at most FloatMax; the three special values have     *)
(* d = 0.  The range of the format is kept, its rounding is not.           *)
(***************************************************************************)
Abs(x) == IF x < 0 THEN -x ELSE x
RECURSIVE Gcd(_, _)
Gcd(a, b) == IF b = 0 THEN a ELSE Gcd(b, a % b)
Rat(n, d) ==
    LET s == IF d < 0 THEN -1 ELSE 1
        g == Gcd(Abs(n), Abs(d))
    IN [n |-> (s * n) \div g, d |-> (s * d) \div g]
RatInt(i) == [n |-> i, d |-> 1]
NaN == [n |-> 0, d |-> 0]
Inf == [n |-> 1, d |-> 0]
NegInf == [n |-> -1, d |-> 0]
IsFinite(x) == x.d # 0
\* a < b and a <= b as the float type compares: always false on a nan
RatLt(a, b) ==
    IF a = NaN \/ b = NaN THEN FALSE
    ELSE IF IsFinite(a) /\ IsFinite(b) THEN a.n * b.d < b.n * a.d
    ELSE IF ~IsFinite(a) /\ ~IsFinite(b) THEN a.n < b.n
    ELSE IF ~IsFinite(a) THEN a.n < 0
    ELSE b.n > 0
RatLe(a, b) == RatLt(a, b) \/ (a # NaN /\ a = b)
\* exact arithmetic on finite values, over the least common denominator
Lcm(a, b) == (a \div Gcd(a, b)) * b
RatAdd(a, b) ==
    LET l == Lcm(a.d, b.d) IN Rat(a.n * (l \div a.d) + b.n * (l \div b.d), l)
RatSub(a, b) ==
    LET l == Lcm(a.d, b.d) IN Rat(a.n * (l \div a.d) - b.n * (l \div b.d), l)
RatMul(a, b) == Rat(a.n * b.n, a.d * b.d)
RatDivInt(a, i) == Rat(a.n, a.d * i)

RECURSIVE RatSum(_)
RatSum(s) == IF s = <<>> THEN RatInt(0) ELSE RatAdd(Head(s), RatSum(Tail(s)))

RECURSIVE Pow10(_)
Pow10(k) == IF k = 0 THEN 1 ELSE 10 * Pow10(k - 1)

RECURSIVE DigitsVal(_)
DigitsVal(s) ==
    IF s = <<>> THEN 0 ELSE 10 * DigitsVal(SubSeq(s, 1, Len(s) - 1)) + DigitVal(s[Len(s)])

\* float(str): surrounding whitespace is ignored; then an optional sign and
\* either digits with at most one point and at least one digit, or one of the
\* words nan, inf, infinity in any case.  A magnitude beyond the range of the
\* format becomes an infinity.  Anything else raises ValueError.
ParseFloat(str) ==
    LET s == Strip(str)
        signed == s # <<>> /\ Head(s) \in {"+", "-"}
        negative == signed /\ Head(s) = "-"
        body == IF signed THEN Tail(s) ELSE s
        points == {i \in 1..Len(body) : body[i] = "."}
        p == IF points = {} THEN Len(body) + 1 ELSE CHOOSE i \in points : TRUE
        ip == SubSeq(body, 1, p - 1)
        fp == SubSeq(body, p + 1, Len(body))
        wellFormed ==
            /\ Cardinality(points) <= 1
            /\ \A i \in 1..Len(body) : i \in points \/ IsDigit(body[i])
            /\ Len(ip) + Len(fp) >= 1
        mag == Rat(DigitsVal(ip) * Pow10(Len(fp)) + DigitsVal(fp), Pow10(Len(fp)))
    IN IF Lower(body) = <<"n", "a", "n">> THEN Ok(NaN)
       ELSE IF Lower(body) \in {<<"i", "n", "f">>, <<"i", "n", "f", "i", "n", "i", "t", "y">>}
            THEN Ok(IF negative THEN NegInf ELSE Inf)
       ELSE IF ~wellFormed THEN Raise("ValueError")
       ELSE IF RatLt(RatInt(FloatMax), mag) THEN Ok(IF negative THEN NegInf ELSE Inf)
       ELSE Ok(IF negative THEN Rat(-mag.n, mag.d) ELSE mag)

\* int(float): truncation toward zero; a nan is a ValueError and an infinity
\* an OverflowError
IntOf(r) ==
    IF r = NaN THEN Raise("ValueError")
    ELSE IF ~IsFinite(r) THEN Raise("OverflowError")
    ELSE Ok(IF r.n >= 0 THEN r.n \div r.d ELSE -((-r.n) \div r.d))

RECURSIVE ISqrt(_)
\* the largest k with k * k <= x
ISqrt(x) ==
    IF x < 2 THEN x
    ELSE LET s == 2 * ISqrt(x \div 4)
         IN IF (s + 1) * (s + 1) <= x THEN s + 1 ELSE s

\* the square root of a finite rational, to a hundredth (rounded down); a
\* negative argument is a math domain error
RatSqrt(r) ==
    IF r.n < 0 THEN Raise("ValueError")
    ELSE Ok(Rat(ISqrt((r.n \div r.d) * 10000 + ((r.n % r.d) * 10000) \div r.d), 100))

\* format(x, ".2f"): two decimals, ties to even, the sign kept; nan and inf
\* for the special values
Format2f(r) ==
    LET a == Abs(r.n) * 100
        q == a \div r.d
        rem == a % r.d
        h == IF 2 * rem > r.d \/ (2 * rem = r.d /\ q % 2 = 1) THEN q + 1 ELSE q
        c == h % 100
    IN IF r = NaN THEN "nan"
       ELSE IF ~IsFinite(r) THEN (IF r.n < 0 THEN "-inf" ELSE "inf")
       ELSE (IF r.n < 0 THEN "-" ELSE "") \o ToString(h \div 100) \o "."
            \o (IF c < 10 THEN "0" ELSE "") \o ToString(c)

(***************************************************************************)
(* Files.  fs maps a path to what is there.                                *)
(***************************************************************************)
Absent == [fmt |-> "absent"]
\* a file the format's parser rejects (not a zip archive, malformed JSON,
\* bytes that are not UTF-8)
Garbage == [fmt |-> "garbage"]
IoOk(v, io) == [ok |-> TRUE, val |-> v, io |-> io]
IoRaise(e, io) == [ok |-> FALSE, err |-> e, io |-> io]

(***************************************************************************)
(* case_csv_pipeline.py                                                    *)
(***************************************************************************)
\* (row.get(column_name) or "").strip()
CsvRawValue(row, column_name) ==
    LET v == row[column_name]
    IN Strip(IF v.k = "str" THEN v.s ELSE <<>>)

RECURSIVE CsvScores_stops_at_bad(_, _)
\* mutant: a cell float() rejects ends the loop instead of being skipped
CsvScores_stops_at_bad(rows, column_name) ==
    IF rows = <<>> THEN <<>>
    ELSE LET raw_value == CsvRawValue(Head(rows), column_name)
             parsed == ParseFloat(raw_value)
         IN IF raw_value = <<>> THEN CsvScores_stops_at_bad(Tail(rows), column_name)
            ELSE IF parsed.ok
                 THEN <<parsed.val>> \o CsvScores_stops_at_bad(Tail(rows), column_name)
            ELSE <<>>

RECURSIVE CsvScores(_, _)
\* the loop over the rows: blank cells and cells float() rejects are skipped
CsvScores(rows, column_name) ==
    IF rows = <<>> THEN <<>>
    ELSE LET raw_value == CsvRawValue(Head(rows), column_name)
             parsed == ParseFloat(raw_value)
         IN (IF raw_value = <<>> THEN <<>>
             ELSE IF parsed.ok THEN <<parsed.val>>
             ELSE <<>>) \o CsvScores(Tail(rows), column_name)

extract_csv_scores(files, file_path, column_name) ==
    LET f == files[file_path]
    IN IF f.fmt = "absent" THEN IoRaise("FileNotFoundError", <<"exists">>)
       ELSE IF f.fieldnames.k = "none" \/ column_name \notin Range(f.fieldnames.xs)
            THEN IoRaise("KeyError", <<"exists", "open", "parse">>)
       ELSE IoOk(CsvScores(f.rows, column_name), <<"exists", "open", "parse">>)

RECURSIVE MinFrom(_, _, _)
\* min(): the first item that no later item is less than
MinFrom(s, i, best) ==
    IF i > Len(s) THEN best
    ELSE MinFrom(s, i + 1, IF RatLt(s[i], best) THEN s[i] ELSE best)
RatMin(s) == MinFrom(s, 2, s[1])
RECURSIVE MaxFrom(_, _, _)
\* max(): the first item that no later item is greater than
MaxFrom(s, i, best) ==
    IF i > Len(s) THEN best
    ELSE MaxFrom(s, i + 1, IF RatLt(best, s[i]) THEN s[i] ELSE best)
RatMax(s) == MaxFrom(s, 2, s[1])

\* the float sum of special values: a nan, or infinities of both signs, give nan
SpecialSum(S) ==
    IF NaN \in S \/ {Inf, NegInf} \subseteq S THEN NaN
    ELSE IF Inf \in S THEN Inf ELSE NegInf

\* statistics.mean: the exact sum over n; when the data hold special values,
\* their float sum; StatisticsError on no data
statistics_mean(data) ==
    LET special == {x \in Range(data) : ~IsFinite(x)}
    IN IF data = <<>> THEN Raise("StatisticsError")
       ELSE IF special # {} THEN Ok(SpecialSum(special))
       ELSE Ok(RatDivInt(RatSum(data), Len(data)))

\* statistics.stdev: the square root of the sample variance, the sum of the
\* squared deviations from the mean over n - 1.  StatisticsError below two
\* values; with a special value among the data the sum of squares is a float
\* that has no numerator (AttributeError); a root beyond the range of the
\* format is an OverflowError.
statistics_stdev(data) ==
    IF Len(data) < 2 THEN Raise("StatisticsError")
    ELSE IF \E i \in 1..Len(data) : ~IsFinite(data[i]) THEN Raise("AttributeError")
    ELSE LET mean == statistics_mean(data).val
             sq == [i \in 1..Len(data) |->
                       RatMul(RatSub(data[i], mean), RatSub(data[i], mean))]
             mss == RatDivInt(RatSum(sq), Len(data) - 1)
         IN IF RatLt(RatInt(FloatMax * FloatMax), mss) THEN Raise("OverflowError")
            ELSE RatSqrt(mss)

transform_scores_to_stats(scores) ==
    IF scores = <<>> THEN Raise("ValueError")
    ELSE LET mean == statistics_mean(scores)
             stdev == IF Len(scores) > 1 THEN statistics_stdev(scores)
                      ELSE Ok(RatInt(0))
         IN IF ~mean.ok THEN mean
            ELSE IF ~stdev.ok THEN stdev
            ELSE Ok([count |-> RatInt(Len(scores)),
                     min |-> RatMin(scores),
                     max |-> RatMax(scores),
                     mean |-> mean.val,
                     stdev |-> stdev.val])

\* mutant: the count is tested with < instead of <=, so a count of 0 passes
verify_stats_nonnegative(stats) ==
    LET required == {"count", "min", "max", "mean", "stdev"}
        missing == required \ DOMAIN stats
    IN IF missing # {} THEN Raise("KeyError")
       ELSE IF RatLt(stats["count"], RatInt(0)) THEN Raise("ValueError")
       ELSE IF RatLt(stats["max"], stats["min"]) THEN Raise("ValueError")
       ELSE Ok(NoneVal)

verify_stats(stats) ==
    LET required == {"count", "min", "max", "mean", "stdev"}
        missing == required \ DOMAIN stats
    IN IF missing # {} THEN Raise("KeyError")
       ELSE IF RatLe(stats["count"], RatInt(0)) THEN Raise("ValueError")
       ELSE IF RatLt(stats["max"], stats["min"]) THEN Raise("ValueError")
       ELSE Ok(NoneVal)

\* stats[key] interpolated with a format; KeyError when the key is missing
StatsField(stats, key, label, asInt) ==
    IF key \notin DOMAIN stats THEN Raise("KeyError")
    ELSE IF ~asInt THEN Ok(label \o Format2f(stats[key]))
    ELSE IF ~IntOf(stats[key]).ok THEN IntOf(stats[key])
    ELSE Ok(label \o ToString(IntOf(stats[key]).val))

\* the f.write calls of load_stats_report, in order: what each one writes
load_stats_report(stats) ==
    << Ok("CSV Ladder Score Statistics"),
       StatsField(stats, "count", "Count: ", TRUE),
       StatsField(stats, "min", "Minimum: ", FALSE),
       StatsField(stats, "max", "Maximum: ", FALSE),
       StatsField(stats, "mean", "Mean: ", FALSE),
       StatsField(stats, "stdev", "Standard Deviation: ", FALSE) >>

(***************************************************************************)
(* case_xlsx_pipeline.py                                                   *)
(***************************************************************************)
\* sheet[column_letter]: the cells of a column of the active sheet.  A letter
\* beyond the used columns yields empty cells; a key that is no coordinate
\* raises ValueError.
SheetColumn(sheet, column_letter) ==
    IF column_letter \in DOMAIN sheet THEN Ok(sheet[column_letter])
    ELSE IF column_letter \in {"A", "B", "C"} THEN Ok(<<>>)
    ELSE Raise("ValueError")

\* isinstance(value, str) and value.strip()
XlsxKeep(value) == value.k = "str" /\ Strip(value.s) # <<>>

extract_xlsx_column_strings(files, file_path, column_letter) ==
    LET f == files[file_path]
    IN IF f.fmt = "absent" THEN IoRaise("FileNotFoundError", <<"exists">>)
       ELSE IF f.fmt = "garbage" THEN IoRaise("BadZipFile", <<"exists", "open", "parse">>)
       ELSE LET col == SheetColumn(f.sheet, column_letter)
            IN IF ~col.ok THEN IoRaise(col.err, <<"exists", "open", "parse">>)
               ELSE LET cells == col.val
                        keep == {i \in 1..Len(cells) : XlsxKeep(cells[i])}
                        kept == SelectIdx(cells, keep, 1)
                    IN IoOk([i \in 1..Len(kept) |-> kept[i].s],
                            <<"exists", "open", "parse">>)

RECURSIVE Concat(_)
Concat(values) == IF values = <<>> THEN <<>> ELSE Head(values) \o Concat(Tail(values))
\* mutant: the strings are joined and the word is counted in the whole
transform_count_word_joined(values, word) ==
    IF word = <<>> THEN Raise("ValueError")
    ELSE Ok(StrCount(Lower(Concat(values)), Lower(word)))

transform_count_word(values, word) ==
    IF word = <<>> THEN Raise("ValueError")
    ELSE LET target == Lower(word)
         IN Ok(SumSeq([i \in 1..Len(values) |-> StrCount(Lower(values[i]), target)]))

verify_count(count) ==
    IF count < 0 THEN Raise("ValueError") ELSE Ok(NoneVal)

\* the f.write calls of load_count_report
load_count_report(count, word, column_letter) ==
    << Ok("XLSX Word Count Result"),
       Ok("Word: " \o Str(word)),
       Ok("Column: " \o column_letter),
       Ok("Count: " \o ToString(count)) >>

(***************************************************************************)
(* case_json_pipeline.py                                                   *)
(***************************************************************************)
\* mutant: no file_path.exists() test, so the missing file is met by open()
extract_people_list_unchecked(files, file_path, list_key) ==
    LET f == files[file_path]
        io == <<"open", "parse">>
    IN IF f.fmt = "absent" THEN IoRaise("FileNotFoundError", <<"open">>)
       ELSE IF f.fmt = "garbage" THEN IoRaise("JSONDecodeError", io)
       ELSE IF f.data.k # "dict" THEN IoRaise("TypeError", io)
       ELSE LET value == DictGet(f.data.f, list_key, PyList(<<>>))
            IN IF value.k # "list" THEN IoRaise("TypeError", io)
               ELSE IoOk(SelectIdx(value.xs,
                                   {i \in 1..Len(value.xs) : value.xs[i].k = "dict"}, 1),
                         io)

\* mutant: a missing list_key is an error (data[list_key])
extract_people_list_strict(files, file_path, list_key) ==
    LET f == files[file_path]
        io == <<"exists", "open", "parse">>
    IN IF f.fmt = "absent" THEN IoRaise("FileNotFoundError", <<"exists">>)
       ELSE IF f.fmt = "garbage" THEN IoRaise("JSONDecodeError", io)
       ELSE IF f.data.k # "dict" THEN IoRaise("TypeError", io)
       ELSE IF list_key \notin DOMAIN f.data.f THEN IoRaise("KeyError", io)
       ELSE LET value == f.data.f[list_key]
            IN IF value.k # "list" THEN IoRaise("TypeError", io)
               ELSE IoOk(SelectIdx(value.xs,
                                   {i \in 1..Len(value.xs) : value.xs[i].k = "dict"}, 1),
                         io)

extract_people_list(files, file_path, list_key) ==
    LET f == files[file_path]
        io == <<"exists", "open", "parse">>
    IN IF f.fmt = "absent" THEN IoRaise("FileNotFoundError", <<"exists">>)
       ELSE IF f.fmt = "garbage" THEN IoRaise("JSONDecodeError", io)
       ELSE IF f.data.k # "dict" THEN IoRaise("TypeError", io)
       ELSE LET value == DictGet(f.data.f, list_key, PyList(<<>>))
            IN IF value.k # "list" THEN IoRaise("TypeError", io)
               ELSE IoOk(SelectIdx(value.xs,
                                   {i \in 1..Len(value.xs) : value.xs[i].k = "dict"}, 1),
                         io)

Unknown == <<"U", "n", "k", "n", "o", "w", "n">>

\* mutant: a blank craft is kept as a group of its own
CraftOf_keeps_blank(person, craft_key) ==
    LET craft == DictGet(person.f, craft_key, PyStr(Unknown))
    IN IF craft.k # "str" THEN Unknown ELSE craft.s

\* the group one person is counted under
CraftOf(person, craft_key) ==
    LET craft == DictGet(person.f, craft_key, PyStr(Unknown))
    IN IF craft.k # "str" THEN Unknown
       ELSE IF Strip(craft.s) = <<>> THEN Unknown
       ELSE craft.s

RECURSIVE CountByCraft(_, _, _)
\* the loop over people_list, updating counts
CountByCraft(people_list, craft_key, counts) ==
    IF people_list = <<>> THEN counts
    ELSE LET craft == CraftOf(Head(people_list), craft_key)
         IN CountByCraft(Tail(people_list), craft_key,
                         DictSet(counts, craft, DictGet(counts, craft, 0) + 1))

transform_count_by_craft(people_list, craft_key) ==
    Ok(CountByCraft(people_list, craft_key, <<>>))

verify_counts(counts) ==
    IF \E craft \in DOMAIN counts : Strip(craft) = <<>> \/ counts[craft] < 0
    THEN Raise("ValueError")
    ELSE Ok(NoneVal)

\* the f.write calls of load_counts_report: the title, then one line per craft
\* in sorted order
load_counts_report(counts) ==
    LET crafts == Sorted(DOMAIN counts)
    IN <<Ok("Astronauts by spacecraft:")>> \o
       [i \in 1..Len(crafts) |->
           Ok(Str(crafts[i]) \o ": " \o ToString(counts[crafts[i]]))]

(***************************************************************************)
(* case_text_pipeline.py                                                   *)
(***************************************************************************)
extract_lines(files, file_path) ==
    LET f == files[file_path]
    IN IF f.fmt = "absent" THEN IoRaise("FileNotFoundError", <<"exists">>)
       ELSE IF f.fmt = "garbage"
            THEN IoRaise("UnicodeDecodeError", <<"exists", "open", "parse">>)
       ELSE IoOk(f.lines, <<"exists", "open", "parse">>)

transform_line_word_char_counts(lines) ==
    Ok([lines |-> Len(lines),
        words |-> SumSeq([i \in 1..Len(lines) |-> SplitLen(lines[i])]),
        chars |-> SumSeq([i \in 1..Len(lines) |-> Len(lines[i])])])

RECURSIVE VerifySummaryKeys(_, _)
\* the loop over the keys: for each key in turn, presence and then sign
VerifySummaryKeys(summary, keys) ==
    IF keys = <<>> THEN Ok(NoneVal)
    ELSE IF Head(keys) \notin DOMAIN summary THEN Raise("KeyError")
    ELSE IF summary[Head(keys)] < 0 THEN Raise("ValueError")
    ELSE VerifySummaryKeys(summary, Tail(keys))

verify_summary(summary) == VerifySummaryKeys(summary, <<"lines", "words", "chars">>)

SummaryField(summary, key, label) ==
    IF key \notin DOMAIN summary THEN Raise("KeyError")
    ELSE Ok(label \o ToString(summary[key]))

\* the f.write calls of load_summary_report
load_summary_report(summary) ==
    << Ok("Text File Summary"),
       SummaryField(summary, "lines", "Lines: "),
       SummaryField(summary, "words", "Words: "),
       SummaryField(summary, "chars", "Characters: ") >>

(***************************************************************************)
(* The drivers and main.  A driver's fixed arguments are its configuration;*)
(* the steps below run whichever configuration is current.                 *)
(***************************************************************************)
RAW_DIR == "data/raw"
PROCESSED_DIR == "data/processed"
GitHub == <<"G", "i", "t", "H", "u", "b">>

Config(kind, input, output, selector, word, craft_key) ==
    [kind |-> kind,
     file_path |-> RAW_DIR \o "/" \o input,
     out_dir |-> PROCESSED_DIR,
     out_path |-> PROCESSED_DIR \o "/" \o output,
     selector |-> selector, word |-> word, craft_key |-> craft_key]

run_csv_pipeline ==
    Config("csv", "2020_happiness.csv", "csv_ladder_score_stats.txt",
           "Ladder score", <<>>, "")
run_xlsx_pipeline ==
    Config("xlsx", "Feedback.xlsx", "xlsx_feedback_github_count.txt",
           "A", GitHub, "")
run_json_pipeline ==
    Config("json", "astros.json", "json_astronauts_by_craft.txt",
           "people", <<>>, "craft")
run_text_pipeline ==
    Config("text", "romeo_and_juliet.txt", "txt_summary.txt", "", <<>>, "")

\* the order in which main calls the drivers
main == <<run_csv_pipeline, run_xlsx_pipeline, run_json_pipeline, run_text_pipeline>>

Kinds == {"csv", "xlsx", "json", "text"}
DriverOf(kind) == CHOOSE c \in Range(main) : c.kind = kind

VARIABLES
    fs,       \* path -> what is on disk there
    fs0,      \* history: fs in the initial state
    cfg,      \* the configuration of the driver (or step) that is running
    pc,       \* where control is
    done,     \* the number of drivers main has run to their end
    raw,      \* the Extractor's result, the driver's first local
    summ,     \* the Transformer's result, the driver's second local
    err,      \* the exception that is propagating, or "none"
    f,        \* the Loader's open file: [buf, n], lines buffered and writes made
    trace,    \* history: the log messages and the steps called, in order
    io,       \* history: the file operations attempted on input files, in order
    calls,    \* the number of Loader calls begun (direct calls of a Loader)
    snap      \* history: the report file as each completed Loader call left it

vars == <<fs, fs0, cfg, pc, done, raw, summ, err, f, trace, io, calls, snap>>

Dir == [fmt |-> "dir"]
Report(lines) == [fmt |-> "report", lines |-> lines]
Closed == [buf |-> <<>>, n |-> 0]
Event(kind, ev) == [kind |-> kind, ev |-> ev]

(***************************************************************************)
(* The four steps, dispatched on the pipeline.                             *)
(***************************************************************************)
Extractor(files, c) ==
    CASE c.kind = "csv" -> extract_csv_scores(files, c.file_path, c.selector)
      [] c.kind = "xlsx" -> extract_xlsx_column_strings(files, c.file_path, c.selector)
      [] c.kind = "json" -> extract_people_list(files, c.file_path, c.selector)
      [] c.kind = "text" -> extract_lines(files, c.file_path)

Transformer(c, data) ==
    CASE c.kind = "csv" -> transform_scores_to_stats(data)
      [] c.kind = "xlsx" -> transform_count_word(data, c.word)
      [] c.kind = "json" -> transform_count_by_craft(data, c.craft_key)
      [] c.kind = "text" -> transform_line_word_char_counts(data)

Verifier(c, summary) ==
    CASE c.kind = "csv" -> verify_stats(summary)
      [] c.kind = "xlsx" -> verify_count(summary)
      [] c.kind = "json" -> verify_counts(summary)
      [] c.kind = "text" -> verify_summary(summary)

LoaderWrites(c, summary) ==
    CASE c.kind = "csv" -> load_stats_report(summary)
      [] c.kind = "xlsx" -> load_count_report(summary, c.word, c.selector)
      [] c.kind = "json" -> load_counts_report(summary)
      [] c.kind = "text" -> load_summary_report(summary)

\* mutant: main catches what a driver raises and goes on with the next driver
Start_after_raise ==
    /\ pc \in {"idle", "raised"} /\ done < Len(main)
    /\ pc = "raised" => Len(trace) > 0 /\ done + 1 < Len(main)
    /\ LET next == IF pc = "raised" THEN done + 2 ELSE done + 1
       IN /\ cfg' = main[next]
          /\ done' = next - 1
          /\ trace' = Append(trace, Event(main[next].kind, "START"))
    /\ pc' = "E"
    /\ err' = "none"
    /\ UNCHANGED <<fs, fs0, raw, summ, f, io, calls, snap>>

\* logger.info("<TAG>: START") and the entry into the driver
Start ==
    /\ pc = "idle" /\ done < Len(main)
    /\ cfg' = main[done + 1]
    /\ pc' = "E"
    /\ trace' = Append(trace, Event(main[done + 1].kind, "START"))
    /\ UNCHANGED <<fs, fs0, done, raw, summ, err, f, io, calls, snap>>

\* E
Extract ==
    /\ pc = "E"
    /\ LET r == Extractor(fs, cfg)
       IN /\ io' = io \o [i \in 1..Len(r.io) |-> <<r.io[i], cfg.file_path>>]
          /\ IF r.ok
             THEN raw' = r.val /\ pc' = "T" /\ err' = err
             ELSE raw' = raw /\ pc' = "raised" /\ err' = r.err
    /\ trace' = Append(trace, Event(cfg.kind, "E"))
    /\ UNCHANGED <<fs, fs0, cfg, done, summ, f, calls, snap>>

\* mutant: the driver passes the Summary to the Loader without verifying it
Transform_skips_verify ==
    /\ pc = "T"
    /\ LET r == Transformer(cfg, raw)
       IN IF r.ok
          THEN summ' = r.val /\ pc' = "L" /\ err' = err
          ELSE summ' = summ /\ pc' = "raised" /\ err' = r.err
    /\ trace' = Append(trace, Event(cfg.kind, "T"))
    /\ UNCHANGED <<fs, fs0, cfg, done, raw, f, io, calls, snap>>

\* T
Transform ==
    /\ pc = "T"
    /\ LET r == Transformer(cfg, raw)
       IN IF r.ok
          THEN summ' = r.val /\ pc' = "V" /\ err' = err
          ELSE summ' = summ /\ pc' = "raised" /\ err' = r.err
    /\ trace' = Append(trace, Event(cfg.kind, "T"))
    /\ UNCHANGED <<fs, fs0, cfg, done, raw, f, io, calls, snap>>

\* V
Verify ==
    /\ pc = "V"
    /\ LET r == Verifier(cfg, summ)
       IN IF r.ok
          THEN pc' = "L" /\ err' = err
          ELSE pc' = "raised" /\ err' = r.err
    /\ trace' = Append(trace, Event(cfg.kind, "V"))
    /\ UNCHANGED <<fs, fs0, cfg, done, raw, summ, f, io, calls, snap>>

\* L: out_path.parent.mkdir(parents=True, exist_ok=True)
LoadMkdir ==
    /\ pc = "L"
    /\ fs' = [fs EXCEPT ![cfg.out_dir] = Dir]
    /\ pc' = "L_open"
    /\ trace' = Append(trace, Event(cfg.kind, "L"))
    /\ UNCHANGED <<fs0, cfg, done, raw, summ, err, f, io, calls, snap>>

\* mutant: the file is opened for appending, so what is there stays
LoadOpen_appends ==
    /\ pc = "L_open"
    /\ fs' = [fs EXCEPT ![cfg.out_path] = IF @.fmt = "report" THEN @ ELSE Report(<<>>)]
    /\ f' = [buf |-> <<>>, n |-> 0]
    /\ pc' = "L_write"
    /\ UNCHANGED <<fs0, cfg, done, raw, summ, err, trace, io, calls, snap>>

\* L: out_path.open("w") creates the file, or truncates the one that is there
LoadOpen ==
    /\ pc = "L_open"
    /\ fs' = [fs EXCEPT ![cfg.out_path] = Report(<<>>)]
    /\ f' = [buf |-> <<>>, n |-> 0]
    /\ pc' = "L_write"
    /\ UNCHANGED <<fs0, cfg, done, raw, summ, err, trace, io, calls, snap>>

\* L: the next f.write.  The text goes to the file object's buffer; when
\* building it raises, the with block closes the file, which flushes the buffer.
LoadWrite ==
    /\ pc = "L_write"
    /\ f.n < Len(LoaderWrites(cfg, summ))
    /\ LET w == LoaderWrites(cfg, summ)[f.n + 1]
       IN IF w.ok
          THEN /\ f' = [buf |-> Append(f.buf, w.val), n |-> f.n + 1]
               /\ UNCHANGED <<fs, pc, err>>
          ELSE /\ fs' = [fs EXCEPT ![cfg.out_path] = Report(@.lines \o f.buf)]
               /\ f' = Closed
               /\ pc' = "raised"
               /\ err' = w.err
    /\ UNCHANGED <<fs0, cfg, done, raw, summ, trace, io, calls, snap>>

\* L: the end of the with block closes the file, which flushes the buffer
LoadClose ==
    /\ pc = "L_write"
    /\ f.n = Len(LoaderWrites(cfg, summ))
    /\ fs' = [fs EXCEPT ![cfg.out_path] = Report(@.lines \o f.buf)]
    /\ f' = Closed
    /\ pc' = "L_done"
    /\ snap' = Append(snap, Report(fs[cfg.out_path].lines \o f.buf))
    /\ UNCHANGED <<fs0, cfg, done, raw, summ, err, trace, io, calls>>

\* logger.info("<TAG>: wrote ..."), logger.info("<TAG>: END"), and the return
\* to main
Finish ==
    /\ pc = "L_done"
    /\ done < Len(main)
    /\ trace' = trace \o <<Event(cfg.kind, "wrote"), Event(cfg.kind, "END")>>
    /\ done' = done + 1
    /\ pc' = "idle"
    /\ UNCHANGED <<fs, fs0, cfg, raw, summ, err, f, io, calls, snap>>

\* a caller calls the Loader again, with the same Summary and destination
LoadAgain ==
    /\ pc = "L_done"
    /\ calls < MaxCalls
    /\ calls' = calls + 1
    /\ pc' = "L"
    /\ UNCHANGED <<fs, fs0, cfg, done, raw, summ, err, f, trace, io, snap>>

(***************************************************************************)
(* Inputs.  The element sets are fixed; the lengths are bounded.           *)
(***************************************************************************)
Paths ==
    {main[i].file_path : i \in 1..Len(main)}
        \cup {main[i].out_path : i \in 1..Len(main)} \cup {PROCESSED_DIR}
EmptyDisk == [p \in Paths |-> Absent]

\* cells of a CSV column: numbers, blanks, text, padded numbers, a missing cell
CsvCells ==
    { PyStr(<<"7", ".", "5">>), PyStr(<<"6", ".", "2">>), PyStr(<<>>),
      PyStr(<<"b", "a", "d">>), PyStr(<<"5", ".", "0">>),
      PyStr(<<" ", "5", ".", "0", " ">>), PyStr(<<" ", " ">>),
      PyStr(<<"-", "1">>), PyStr(<<"N", "a", "N">>), PyStr(<<"-", "i", "n", "f">>),
      NoneVal }
CsvHeader == <<"Country name", "Ladder score">>
CsvRow(cell) == [c \in Range(CsvHeader) |->
                    IF c = "Ladder score" THEN cell ELSE PyStr(<<"F", "i">>)]
CsvFile(fieldnames, rows) == [fmt |-> "csv", fieldnames |-> fieldnames, rows |-> rows]
\* the cells of the specification's end-to-end example
ExampleCells ==
    << PyStr(<<"7", ".", "5">>), PyStr(<<"6", ".", "2">>), PyStr(<<>>),
       PyStr(<<"b", "a", "d">>), PyStr(<<"5", ".", "0">>) >>
CsvRowsOf(cells) == [i \in 1..Len(cells) |-> CsvRow(cells[i])]
CsvFiles(n) ==
    {Absent, CsvFile(NoneVal, <<>>),
     CsvFile(PyList(<<"Country name">>), <<>>),
     CsvFile(PyList(<<"Country name">>), <<[c \in {"Country name"} |-> PyStr(<<"F", "i">>)]>>),
     CsvFile(PyList(CsvHeader), CsvRowsOf(ExampleCells))}
    \cup {CsvFile(PyList(CsvHeader), CsvRowsOf(cells)) : cells \in SeqsUpTo(CsvCells, n)}
CsvSelectors == {"Ladder score", "Country name", "Rank"}

\* values of spreadsheet cells
XlsxCells ==
    { PyStr(<<"G", "i", "t">>), PyStr(<<" ">>), PyStr(<<>>),
      PyStr(<<" ", "g", " ">>), PyNum(4), NoneVal }
XlsxFile(sheet) == [fmt |-> "xlsx", sheet |-> sheet]
XlsxFiles(n) ==
    {Absent, Garbage}
    \cup {XlsxFile([A |-> cells, B |-> <<PyNum(1), PyStr(<<"b">>)>>]) :
            cells \in SeqsUpTo(XlsxCells, n)}
XlsxSelectors == {"A", "B", "C", "?"}

\* records of people, and list elements that are not records
ISS == <<"I", "S", "S">>
CraftValues ==
    { PyStr(ISS), PyStr(<<>>), PyStr(<<" ">>), PyStr(<<" ", "T">>),
      PyStr(Unknown), PyNum(1), NoneVal }
Person(craft) == PyDict([name |-> PyStr(<<"A", "l">>), craft |-> craft])
Persons == {PyDict([name |-> PyStr(<<"A", "l">>)])} \cup {Person(v) : v \in CraftValues}
\* the records of the specification's end-to-end example
ExamplePeople ==
    << PyDict([craft |-> PyStr(ISS)]), PyDict([craft |-> PyStr(ISS)]),
       PyDict([craft |-> PyStr(<<>>)]) >>
PeopleLists(n) == SeqsUpTo(Persons, n) \cup {ExamplePeople}
JsonItems ==
    { Person(PyStr(ISS)), Person(PyStr(<<>>)), PyDict([name |-> PyStr(<<"A", "l">>)]),
      PyStr(ISS), PyNum(1), NoneVal, PyList(<<>>) }
JsonFile(data) == [fmt |-> "json", data |-> data]
JsonFiles(n) ==
    {Absent, Garbage,
     JsonFile(PyList(<<Person(PyStr(ISS))>>)), JsonFile(PyStr(ISS)), JsonFile(NoneVal),
     JsonFile(PyDict([number |-> PyNum(3)])),
     JsonFile(PyDict([people |-> PyNum(3)])),
     JsonFile(PyDict([people |-> NoneVal])),
     JsonFile(PyDict([people |-> Person(PyStr(ISS))])),
     JsonFile(PyDict([people |-> PyStr(ISS)]))}
    \cup {JsonFile(PyDict([number |-> PyNum(Len(items)), people |-> PyList(items)])) :
            items \in SeqsUpTo(JsonItems, n)}
JsonSelectors == {"people", "crew", "number"}

\* lines as readlines yields them: each ends in a newline, but for the last
TextLines == { <<"a", " ", "b", "\n">>, <<"\n">>, <<" ", "a", "\t", "\n">>, <<"a", "b">> }
IsReadlines(lines) ==
    \A i \in 1..Len(lines) : i < Len(lines) => lines[i][Len(lines[i])] = "\n"
LineSeqs(n) == {lines \in SeqsUpTo(TextLines, n) : IsReadlines(lines)}
TextFile(lines) == [fmt |-> "text", lines |-> lines]
TextFiles(n) == {Absent, Garbage} \cup {TextFile(lines) : lines \in LineSeqs(n)}

\* numbers of a score column
Scores ==
    {Rat(15, 2), Rat(31, 5), RatInt(5), RatInt(-1), RatInt(0),
     RatInt(FloatMax), RatInt(-FloatMax), NaN, Inf}
ExampleScores == <<Rat(15, 2), Rat(31, 5), RatInt(5)>>
ScoreSeqs(n) == SeqsUpTo(Scores, n) \cup {ExampleScores}

\* strings to search, and words to search for
Letters == {"a", "A", "b"}
Texts(n) == SeqsUpTo(Letters, n)
FewTexts == {<<>>, <<"a">>, <<"A", "a">>, <<"a", "a", "a">>, <<"b", "a">>}
ValueSeqs(n, m) == {<<t>> : t \in Texts(m)} \cup SeqsUpTo(FewTexts, n)
Words == {<<>>, <<"a">>, <<"A">>, <<"b">>, <<"a", "a">>, <<"a", "A">>, <<"a", "b">>}

\* Summaries, complete or not, valid or not
Partial(keys, values) == UNION {[d -> values] : d \in SUBSET keys}
StatsValues(n) == {RatInt(v) : v \in -1..n} \cup {NaN}
StatsSummaries(values) == Partial({"count", "min", "max", "mean", "stdev"}, values)
\* values a statistics report is written from: negative, fractional, special
LoadStatsValues == {RatInt(-1), Rat(187, 30), NaN}
TextSummaries(n) == Partial({"lines", "words", "chars"}, -1..n)
CraftNames == {ISS, <<>>, <<" ">>, <<" ", "T">>}
CountsSummaries(n) == Partial(CraftNames, -1..n)

(***************************************************************************)
(* Initial states.                                                         *)
(***************************************************************************)
InitRest ==
    /\ fs0 = fs
    /\ done = 0
    /\ err = "none"
    /\ f = Closed
    /\ trace = <<>>
    /\ io = <<>>
    /\ snap = <<>>

\* what the processed directory holds before a run: no directory, an empty
\* directory, an older report, or a file longer than any report
Stale(n) == Report([i \in 1..n |-> "stale"])
PreStates == {"nodir", "empty", "old", "longer"}
Before(files, pre, outs) ==
    [p \in Paths |->
        IF p = PROCESSED_DIR THEN (IF pre = "nodir" THEN Absent ELSE Dir)
        ELSE IF p \in outs
             THEN (CASE pre = "old" -> Stale(2)
                     [] pre = "longer" -> Stale(12)
                     [] OTHER -> Absent)
        ELSE files[p]]

\* the program: main is about to start, the raw files are whatever they are
ProgramCsv ==
    { Absent, CsvFile(PyList(<<"Country name">>), <<>>),
      CsvFile(PyList(CsvHeader), CsvRowsOf(<<PyStr(<<"b", "a", "d">>)>>)),
      CsvFile(PyList(CsvHeader), CsvRowsOf(ExampleCells)) }
ProgramXlsx ==
    { Absent, Garbage,
      XlsxFile([A |-> << PyStr(GitHub \o <<" ">> \o Lower(GitHub)), NoneVal,
                         PyNum(4), PyStr(<<"G", "i", "t">>) >>]) }
ProgramJson ==
    { Absent, JsonFile(PyList(<<>>)), JsonFile(PyDict([number |-> PyNum(0)])),
      JsonFile(PyDict([people |->
          PyList(<<Person(PyStr(ISS)), Person(PyStr(ISS)), Person(PyStr(<<>>))>>)])) }
ProgramText ==
    { Absent, TextFile(<<>>), TextFile(<<<<"a", " ", "b", "\n">>, <<"\n">>, <<"a", "b">>>>) }

Init ==
    /\ \E c \in ProgramCsv, x \in ProgramXlsx, j \in ProgramJson, t \in ProgramText,
          pre \in PreStates :
          fs = Before([EmptyDisk EXCEPT ![run_csv_pipeline.file_path] = c,
                                        ![run_xlsx_pipeline.file_path] = x,
                                        ![run_json_pipeline.file_path] = j,
                                        ![run_text_pipeline.file_path] = t],
                      pre, {main[i].out_path : i \in 1..Len(main)})
    /\ cfg = NoneVal
    /\ pc = "idle"
    /\ raw = NoneVal
    /\ summ = NoneVal
    /\ calls = 0
    /\ InitRest

Next ==
    \/ Start \/ Extract \/ Transform \/ Verify
    \/ LoadMkdir \/ LoadOpen \/ LoadWrite \/ LoadClose \/ Finish

Spec == Init /\ [][Next]_vars

\* an Extractor called with any selector on any file
InitExtract ==
    /\ \/ \E file \in CsvFiles(MaxRows), sel \in CsvSelectors :
            /\ cfg = [run_csv_pipeline EXCEPT !.selector = sel]
            /\ fs = [EmptyDisk EXCEPT ![run_csv_pipeline.file_path] = file]
       \/ \E file \in XlsxFiles(MaxRows), sel \in XlsxSelectors :
            /\ cfg = [run_xlsx_pipeline EXCEPT !.selector = sel]
            /\ fs = [EmptyDisk EXCEPT ![run_xlsx_pipeline.file_path] = file]
       \/ \E file \in JsonFiles(MaxRows), sel \in JsonSelectors :
            /\ cfg = [run_json_pipeline EXCEPT !.selector = sel]
            /\ fs = [EmptyDisk EXCEPT ![run_json_pipeline.file_path] = file]
       \/ \E file \in TextFiles(MaxRows) :
            /\ cfg = run_text_pipeline
            /\ fs = [EmptyDisk EXCEPT ![run_text_pipeline.file_path] = file]
    /\ pc = "E"
    /\ raw = NoneVal
    /\ summ = NoneVal
    /\ calls = 0
    /\ InitRest

SpecExtract == InitExtract /\ [][Extract]_vars

\* a Transformer called on any input, and the Verifier on what it returns
InitTransform ==
    /\ \/ /\ cfg = run_csv_pipeline
          /\ raw \in ScoreSeqs(MaxRows)
       \/ /\ \E w \in Words : cfg = [run_xlsx_pipeline EXCEPT !.word = w]
          /\ raw \in ValueSeqs(MaxRows, MaxText)
       \/ /\ \E key \in {"craft", "name", "ship"} :
                cfg = [run_json_pipeline EXCEPT !.craft_key = key]
          /\ raw \in PeopleLists(MaxRows)
       \/ /\ cfg = run_text_pipeline
          /\ raw \in LineSeqs(MaxRows)
    /\ fs = EmptyDisk
    /\ pc = "T"
    /\ summ = NoneVal
    /\ calls = 0
    /\ InitRest

SpecTransform == InitTransform /\ [][Transform \/ Verify]_vars

\* a Verifier called on any Summary
InitVerify ==
    /\ \/ /\ cfg = run_csv_pipeline
          /\ summ \in StatsSummaries(StatsValues(MaxCount))
       \/ /\ cfg = run_xlsx_pipeline
          /\ summ \in -1..MaxCount
       \/ /\ cfg = run_json_pipeline
          /\ summ \in CountsSummaries(MaxCount)
       \/ /\ cfg = run_text_pipeline
          /\ summ \in TextSummaries(MaxCount)
    /\ fs = EmptyDisk
    /\ pc = "V"
    /\ raw = NoneVal
    /\ calls = 0
    /\ InitRest

SpecVerify == InitVerify /\ [][Verify]_vars

\* a Loader called on any Summary and any destination, up to MaxCalls times
InitLoad ==
    /\ \/ /\ cfg = run_csv_pipeline
          /\ summ \in StatsSummaries(LoadStatsValues)
       \/ /\ \E w \in {GitHub, <<"a">>}, col \in {"A", "B"} :
                cfg = [run_xlsx_pipeline EXCEPT !.word = w, !.selector = col]
          /\ summ \in -1..MaxCount
       \/ /\ cfg = run_json_pipeline
          /\ summ \in CountsSummaries(1)
       \/ /\ cfg = run_text_pipeline
          /\ summ \in TextSummaries(MaxCount)
    /\ \E pre \in PreStates : fs = Before(EmptyDisk, pre, {cfg.out_path})
    /\ pc = "L"
    /\ raw = NoneVal
    /\ calls = 1
    /\ InitRest

SpecLoad ==
    InitLoad /\ [][LoadMkdir \/ LoadOpen \/ LoadWrite \/ LoadClose \/ LoadAgain]_vars

(***************************************************************************)
(* Properties.                                                             *)
(***************************************************************************)
StepNames == <<"E", "T", "V", "L">>
IsStep(e) == e.ev \in Range(StepNames)
\* the steps a pipeline's driver has called so far, in order
StepsOf(kind) ==
    LET called == SelectSeq(trace, LAMBDA e : e.kind = kind /\ IsStep(e))
    IN [i \in 1..Len(called) |-> called[i].ev]
IsPrefix(s, t) == Len(s) <= Len(t) /\ s = SubSeq(t, 1, Len(s))
OutPath(kind) == DriverOf(kind).out_path

\* C1: in every driver the steps run in the order Extract, Transform, Verify,
\* Load, each at most once; a report file differs from what it was before the
\* run only once all four steps of its driver have been called; and when
\* Extract, Transform or Verify raises, the driver has stopped there (nothing
\* more can run), the error is propagating, and the report file is as it was.
C1_StepOrder ==
    /\ \A kind \in Kinds :
          /\ IsPrefix(StepsOf(kind), StepNames)
          /\ fs[OutPath(kind)] # fs0[OutPath(kind)] => StepsOf(kind) = StepNames
    /\ pc = "raised" =>
          /\ err # "none"
          /\ ~ENABLED Next
          /\ StepsOf(cfg.kind) # StepNames => fs[cfg.out_path] = fs0[cfg.out_path]

\* a Transformer has raised in the CSV driver, over an older report
C1_Witness ==
    /\ pc = "raised"
    /\ cfg.kind = "csv"
    /\ StepsOf("csv") = <<"E", "T">>
    /\ err = "ValueError"
    /\ fs0[cfg.out_path] = Stale(2)
    /\ fs[cfg.out_path] = Stale(2)

\* C2: an Extractor called on a path that does not exist raises
\* FileNotFoundError, whatever the selector, having done nothing with the file
\* but test that it exists: no open, no parse.
C2_MissingInput ==
    (pc # "E" /\ fs0[cfg.file_path] = Absent) =>
        /\ pc = "raised"
        /\ err = "FileNotFoundError"
        /\ io = << <<"exists", cfg.file_path>> >>
        /\ raw = NoneVal

\* the spreadsheet Extractor has been called on a missing file with a selector
\* that is no column
C2_Witness ==
    /\ pc = "raised"
    /\ cfg.kind = "xlsx"
    /\ cfg.selector = "?"
    /\ fs0[cfg.file_path] = Absent
    /\ err = "FileNotFoundError"

\* the fields a Verifier requires
RequiredOf(kind) ==
    CASE kind = "csv" -> {"count", "min", "max", "mean", "stdev"}
      [] kind = "text" -> {"lines", "words", "chars"}
      [] OTHER -> {}
Complete(kind, summary) == RequiredOf(kind) \subseteq DOMAIN summary

\* C3: verify_stats and verify_summary reject every Summary that lacks a
\* required field, and reject it with KeyError, whatever the fields that are
\* present hold.
C3_MissingFieldIsKeyError ==
    (pc # "V" /\ cfg.kind \in {"csv", "text"} /\ ~Complete(cfg.kind, summ)) =>
        /\ pc = "raised"
        /\ err = "KeyError"

\* what a Verifier's call ends in
Rejected(p, e) == p = "raised" /\ e = "ValueError"
Accepted(p, e) == p = "L" /\ e = "none"

\* the sanity rules, on a Summary that has its fields
StatsInvalid(stats) ==
    \/ RatLe(stats["count"], RatInt(0))
    \/ RatLt(stats["max"], stats["min"])
SummaryInvalid(summary) == \E key \in {"lines", "words", "chars"} : summary[key] < 0
HasNegative(counts) == \E craft \in DOMAIN counts : counts[craft] < 0
HasBlankName(counts) ==
    \E craft \in DOMAIN counts : \A i \in 1..Len(craft) : craft[i] \in Whitespace

\* C4: a Verifier's call leaves the Summary as it was; on a Summary with all
\* required fields it raises ValueError exactly when a sanity rule is violated
\* and otherwise returns: verify_stats raises iff count <= 0 or min > max,
\* verify_summary iff one of lines, words, chars is negative, verify_count iff
\* the count is negative, and verify_counts raises on every mapping with a
\* negative count (and otherwise only on a blank craft name).
C4_VerifierSanity ==
    [][pc = "V" =>
        /\ summ' = summ
        /\ CASE cfg.kind = "csv" ->
                  Complete("csv", summ) =>
                      IF StatsInvalid(summ) THEN Rejected(pc', err') ELSE Accepted(pc', err')
             [] cfg.kind = "text" ->
                  Complete("text", summ) =>
                      IF SummaryInvalid(summ) THEN Rejected(pc', err') ELSE Accepted(pc', err')
             [] cfg.kind = "json" ->
                  /\ HasNegative(summ) => Rejected(pc', err')
                  /\ IF HasNegative(summ) \/ HasBlankName(summ)
                     THEN Rejected(pc', err') ELSE Accepted(pc', err')
             [] cfg.kind = "xlsx" ->
                  IF summ < 0 THEN Rejected(pc', err') ELSE Accepted(pc', err')
    ]_vars

\* verify_stats has rejected a complete Summary with a positive count and
\* min > max
C4_Witness ==
    /\ pc = "raised"
    /\ err = "ValueError"
    /\ cfg.kind = "csv"
    /\ Complete("csv", summ)
    /\ summ["count"] = RatInt(1)
    /\ summ["min"] = RatInt(1)
    /\ summ["max"] = RatInt(0)
    /\ trace = <<Event("csv", "V")>>

\* C5: transform_scores_to_stats on a non-empty sequence of numbers returns a
\* Summary with exactly the fields count, min, max, mean, stdev, where count is
\* the length, min <= mean <= max and stdev >= 0, and stdev = 0 for a single
\* element; on the empty sequence it raises ValueError and there is no Summary.
C5_StatsOfScores ==
    (cfg.kind = "csv" /\ pc # "T") =>
        IF raw = <<>>
        THEN pc = "raised" /\ err = "ValueError" /\ summ = NoneVal
        ELSE /\ err = "none"
             /\ DOMAIN summ = {"count", "min", "max", "mean", "stdev"}
             /\ summ["count"] = RatInt(Len(raw))
             /\ RatLe(summ["min"], summ["mean"])
             /\ RatLe(summ["mean"], summ["max"])
             /\ RatLe(RatInt(0), summ["stdev"])
             /\ Len(raw) = 1 => summ["stdev"] = RatInt(0)

\* the group a record belongs to: its field value, or "Unknown" when the field
\* is missing, is no string, or is empty or all whitespace
GroupOf(record, key) ==
    IF key \notin DOMAIN record.f THEN Unknown
    ELSE IF record.f[key].k # "str" THEN Unknown
    ELSE IF \A i \in 1..Len(record.f[key].s) : record.f[key].s[i] \in Whitespace THEN Unknown
    ELSE record.f[key].s

RECURSIVE TotalOf(_)
TotalOf(counts) ==
    IF DOMAIN counts = {} THEN 0
    ELSE LET k == CHOOSE x \in DOMAIN counts : TRUE
         IN counts[k] + TotalOf([x \in DOMAIN counts \ {k} |-> counts[x]])

\* C6: transform_count_by_craft never raises; the counts add up to the number of
\* records; each group's count is the number of records of that group (missing,
\* blank and non-string fields being the group "Unknown"), and only groups that
\* occur are present; the specification's example gives {ISS: 2, Unknown: 1}.
C6_CountByCraft ==
    (cfg.kind = "json" /\ pc # "T") =>
        /\ err = "none"
        /\ TotalOf(summ) = Len(raw)
        /\ DOMAIN summ = {GroupOf(raw[i], cfg.craft_key) : i \in 1..Len(raw)}
        /\ \A g \in DOMAIN summ :
              summ[g] = Cardinality({i \in 1..Len(raw) : GroupOf(raw[i], cfg.craft_key) = g})
        /\ (raw = ExamplePeople /\ cfg.craft_key = "craft") =>
              summ = [g \in {ISS, Unknown} |-> IF g = ISS THEN 2 ELSE 1]

\* the specification's example has been counted
C6_Witness ==
    /\ cfg.kind = "json"
    /\ cfg.craft_key = "craft"
    /\ pc = "V"
    /\ raw = ExamplePeople
    /\ summ[ISS] = 2
    /\ summ[Unknown] = 1

\* the places where word occurs in text, case ignored
Occurs(text, word, i) ==
    \A j \in 1..Len(word) : LowerChar(text[i + j - 1]) = LowerChar(word[j])
Places(text, word) == {i \in 1..(Len(text) - Len(word) + 1) : Occurs(text, word, i)}
\* the number of non-overlapping occurrences: the most places that can be taken
\* together without two of them sharing a character
Occurrences(text, word) ==
    LET fits == {P \in SUBSET Places(text, word) :
                    \A a, b \in P : a # b => Abs(a - b) >= Len(word)}
    IN CHOOSE n \in 0..Len(text) :
          /\ \E P \in fits : Cardinality(P) = n
          /\ \A P \in fits : Cardinality(P) <= n

\* C7: for a non-empty word transform_count_word returns the sum over the
\* strings, each taken alone, of the case-insensitive non-overlapping
\* occurrences of the word in it; for the empty word it raises ValueError
\* whatever the strings.
C7_CountWord ==
    (cfg.kind = "xlsx" /\ pc # "T") =>
        IF cfg.word = <<>>
        THEN pc = "raised" /\ err = "ValueError" /\ summ = NoneVal
        ELSE /\ err = "none"
             /\ summ = SumSeq([i \in 1..Len(raw) |-> Occurrences(raw[i], cfg.word)])

\* "aa" has been counted in the strings "Aa" and "a": once, in the first, in
\* another case, and not a second time across the two strings
C7_Witness ==
    /\ cfg.kind = "xlsx"
    /\ pc = "V"
    /\ raw = << <<"A", "a">>, <<"a">> >>
    /\ cfg.word = <<"a", "a">>
    /\ summ = 1

\* the k-th smallest member of a set of indices
Nth(S, k) == CHOOSE i \in S : Cardinality({j \in S : j < i}) = k - 1

\* C8: extract_csv_scores raises KeyError when the named column is not among
\* the header fields; otherwise it returns, in row order, exactly the values of
\* the rows whose cell in that column is non-blank and parses as a number, and
\* raises for no row; the cells "7.5", "6.2", "", "bad", "5.0" give 7.5, 6.2, 5.0.
C8_ScoresOfColumn ==
    (cfg.kind = "csv" /\ pc # "E" /\ fs0[cfg.file_path].fmt = "csv") =>
        LET file == fs0[cfg.file_path]
            hasColumn == file.fieldnames.k = "list"
                             /\ cfg.selector \in Range(file.fieldnames.xs)
            text(i) == LET cell == file.rows[i][cfg.selector]
                       IN IF cell.k = "str" THEN Strip(cell.s) ELSE <<>>
            kept == {i \in 1..Len(file.rows) : text(i) # <<>> /\ ParseFloat(text(i)).ok}
        IN IF ~hasColumn
           THEN pc = "raised" /\ err = "KeyError" /\ raw = NoneVal
           ELSE /\ pc = "T" /\ err = "none"
                /\ Len(raw) = Cardinality(kept)
                /\ \A k \in 1..Len(raw) : raw[k] = ParseFloat(text(Nth(kept, k))).val
                /\ (file.rows = CsvRowsOf(ExampleCells) /\ cfg.selector = "Ladder score") =>
                      raw = <<Rat(15, 2), Rat(31, 5), RatInt(5)>>

\* the cells of the specification's example have been extracted
C8_Witness ==
    /\ cfg.kind = "csv"
    /\ cfg.selector = "Ladder score"
    /\ pc = "T"
    /\ fs0[cfg.file_path] = CsvFile(PyList(CsvHeader), CsvRowsOf(ExampleCells))
    /\ raw = <<Rat(15, 2), Rat(31, 5), RatInt(5)>>

\* C9: extract_people_list returns the empty list when the named top-level
\* field is absent; raises TypeError when the field is present and no list, or
\* the top level is no object; otherwise returns, in their order, exactly the
\* elements of the list that are objects.
C9_PeopleOfList ==
    (cfg.kind = "json" /\ pc # "E" /\ fs0[cfg.file_path].fmt = "json") =>
        LET data == fs0[cfg.file_path].data
            present == data.k = "dict" /\ cfg.selector \in DOMAIN data.f
            items == data.f[cfg.selector].xs
            records == {i \in 1..Len(items) : items[i].k = "dict"}
        IN IF data.k # "dict" \/ (present /\ data.f[cfg.selector].k # "list")
           THEN pc = "raised" /\ err = "TypeError" /\ raw = NoneVal
           ELSE IF ~present
           THEN pc = "T" /\ err = "none" /\ raw = <<>>
           ELSE /\ pc = "T" /\ err = "none"
                /\ Len(raw) = Cardinality(records)
                /\ \A k \in 1..Len(raw) : raw[k] = items[Nth(records, k)]

\* a list of three elements, the second of them no object, has been extracted
C9_Witness ==
    /\ cfg.kind = "json"
    /\ cfg.selector = "people"
    /\ pc = "T"
    /\ fs0[cfg.file_path] =
          JsonFile(PyDict([number |-> PyNum(3),
                           people |-> PyList(<<Person(PyStr(ISS)), PyNum(1),
                                               Person(PyStr(<<>>))>>)]))
    /\ raw = <<Person(PyStr(ISS)), Person(PyStr(<<>>))>>

\* the report derived from a Summary: the lines the Loader writes, in order
ReportOf(c, summary) ==
    Report([i \in 1..Len(LoaderWrites(c, summary)) |-> LoaderWrites(c, summary)[i].val])

\* C10: after a successful call of a Loader the file at the destination holds
\* exactly the report derived from the Summary, whatever it held before, and
\* the parent directory exists; so the file is the same after every one of
\* several calls with the same Summary and destination.
C10_LoaderOverwrites ==
    pc = "L_done" =>
        /\ fs[cfg.out_dir] = Dir
        /\ fs[cfg.out_path] = ReportOf(cfg, summ)
        /\ Len(snap) = calls
        /\ \A i \in 1..Len(snap) : snap[i] = snap[1]
        /\ (cfg.kind = "json" /\ DOMAIN summ = {ISS, <<" ", "T">>}) =>
              fs[cfg.out_path].lines =
                  << "Astronauts by spacecraft:",
                     " T: " \o ToString(summ[<<" ", "T">>]),
                     "ISS: " \o ToString(summ[ISS]) >>

\* a Loader has been called twice on a destination that held a longer file
C10_Witness ==
    /\ pc = "L_done"
    /\ calls = 2
    /\ Len(snap) = 2
    /\ fs0[cfg.out_path] = Stale(12)
    /\ fs[cfg.out_path] # fs0[cfg.out_path]

\* what the destination held when the current call of the Loader began
Previous == IF snap = <<>> THEN fs0[cfg.out_path] ELSE snap[Len(snap)]
\* every f.write of the Loader can build its text
Writable(c, summary) ==
    \A i \in 1..Len(LoaderWrites(c, summary)) : LoaderWrites(c, summary)[i].ok

\* C11: in every state during or after a call of a Loader, a call that fails
\* between two writes included, the file at the destination holds either its
\* complete previous content or the complete new report, never a truncated
\* file or a prefix of the new report.
C11_NeverPartial ==
    \/ fs[cfg.out_path] = Previous
    \/ /\ Writable(cfg, summ)
       /\ fs[cfg.out_path] = ReportOf(cfg, summ)

\* the drivers in the order of the calls in main, by kind
Order == <<"csv", "xlsx", "json", "text">>
\* the kinds of the events of one sort, in the order they were logged
KindsOf(ev) ==
    LET at == {i \in 1..Len(trace) : trace[i].ev = ev}
    IN [k \in 1..Cardinality(at) |-> trace[Nth(at, k)].kind]
Ended(kind) == \E i \in 1..Len(trace) : trace[i] = Event(kind, "END")
Started(kind) == \E i \in 1..Len(trace) : trace[i] = Event(kind, "START")

\* C12: main starts the drivers in the order CSV, XLSX, JSON, text, each at
\* most once and each only after the one before has ended; when a driver
\* raises, nothing is started any more, the reports of the later drivers are
\* not written, and the report of a driver that has ended is never changed
\* afterwards.
C12_MainSequential ==
    /\ [](/\ IsPrefix(KindsOf("START"), Order)
          /\ IsPrefix(KindsOf("END"), Order)
          /\ \A i \in 1..Len(trace) :
                trace[i].ev = "START" =>
                    Cardinality({j \in 1..(i - 1) : trace[j].ev = "END"})
                        = Cardinality({j \in 1..(i - 1) : trace[j].ev = "START"})
          /\ \A kind \in Kinds : Ended(kind) => fs[OutPath(kind)].fmt = "report"
          /\ pc = "raised" =>
                /\ ~ENABLED Start
                /\ \A kind \in Kinds :
                      ~Started(kind) => fs[OutPath(kind)] = fs0[OutPath(kind)])
    /\ [][\A kind \in Kinds :
             /\ Ended(kind) => fs'[OutPath(kind)] = fs[OutPath(kind)]
             /\ (pc = "raised" /\ ~Started(kind)) => ~Started(kind)']_vars

\* the third driver has raised after the first two wrote their reports, and
\* the fourth has not been started
C12_Witness ==
    /\ pc = "raised"
    /\ cfg.kind = "json"
    /\ KindsOf("END") = <<"csv", "xlsx">>
    /\ fs[OutPath("csv")] # fs0[OutPath("csv")]
    /\ fs[OutPath("xlsx")] # fs0[OutPath("xlsx")]
    /\ ~Started("text")
    /\ fs[OutPath("text")] = fs0[OutPath("text")]

\* C13: what a Transformer returns is accepted by its Verifier, so Verify is
\* never the step that fails: transform_count_by_craft returns only non-blank
\* names with counts >= 1; transform_line_word_char_counts returns lines,
\* words, chars, all >= 0 with chars >= words; transform_count_word returns a
\* count >= 0 for a non-empty word; transform_scores_to_stats returns, for
\* every non-empty sequence of numbers, the five fields with count > 0 and
\* min <= max.
C13_TransformAccepted ==
    /\ (pc = "raised" /\ trace # <<>>) => trace[Len(trace)].ev # "V"
    /\ pc # "T" =>
          CASE cfg.kind = "json" ->
                  /\ pc # "raised"
                  /\ ~HasBlankName(summ)
                  /\ \A craft \in DOMAIN summ : summ[craft] >= 1
            [] cfg.kind = "text" ->
                  /\ pc # "raised"
                  /\ DOMAIN summ = {"lines", "words", "chars"}
                  /\ summ["lines"] >= 0 /\ summ["words"] >= 0
                  /\ summ["chars"] >= summ["words"]
            [] cfg.kind = "xlsx" ->
                  cfg.word # <<>> => pc # "raised" /\ summ >= 0
            [] cfg.kind = "csv" ->
                  raw # <<>> =>
                      /\ pc # "raised"
                      /\ DOMAIN summ = {"count", "min", "max", "mean", "stdev"}
                      /\ RatLt(RatInt(0), summ["count"])
                      /\ RatLe(summ["min"], summ["max"])

====
